---- MODULE Spec2Model ----
(***************************************************************************)
(* hrms_freelancer: the tax / VAT / withholding calculation engine, the    *)
(* treaty and VAT rule tables it reads, and FreelancerPayment's amounts.   *)
(*                                                                         *)
(* Units.  Money handled by TaxCalculator is counted in cents (1/100 of a  *)
(* currency unit), so round(x, 2) is rounding to a whole number of cents.  *)
(* Money handled by FreelancerPayment.calculate_amounts, which does not    *)
(* round, is counted in 1/10000 of a currency unit (the fields named *4).  *)
(* Rates are whole percents.  Dates are day numbers starting at 1.         *)
(* Python's None / SQL NULL is the value None, which is no rate or date.   *)
(***************************************************************************)
EXTENDS Integers, Sequences, FiniteSets, TLC

VARIABLES
    treaties,     \* rows of `tabTax Treaty`
    vatConfigs,   \* `tabVAT Configuration`: country -> row, or NoConfig
    today,        \* frappe.utils.nowdate()
    currencyExchange, \* rows of `tabCurrency Exchange`
    call,         \* the call in flight: its operation, arguments and result
    last,         \* an earlier call the caller kept, with the tables it ran on
    consentLog,   \* `tabGDPR Consent Log`: name -> row
    inserted,     \* history: the values each consent log entry was inserted with
    contracts,    \* `tabFreelancer Contract`: name -> row
    payments,     \* `tabFreelancer Payment`: name -> row
    inflight      \* requests between their document write and their hook

\* The documents: consent log, contracts and payments.
documents == <<consentLog, inserted, contracts, payments, inflight>>

vars == <<treaties, vatConfigs, today, currencyExchange, call, last, documents>>

(***************************************************************************)
(* Bounds of the model                                                     *)
(***************************************************************************)
MaxTreaties == 2

MaxDate == 3

MaxExchangeRows == 2

MaxConsentLogs == 2

MaxPayments == 2

None == 0 - 1

Idle == [op |-> "idle"]

(***************************************************************************)
(* Jurisdiction rule tables                                                *)
(***************************************************************************)
\* tax_treaty.get_eu_countries: the 27 member states.
get_eu_countries ==
    { "Austria", "Belgium", "Bulgaria", "Croatia", "Cyprus", "Czech Republic",
      "Denmark", "Estonia", "Finland", "France", "Germany", "Greece", "Hungary",
      "Ireland", "Italy", "Latvia", "Lithuania", "Luxembourg", "Malta",
      "Netherlands", "Poland", "Portugal", "Romania", "Slovakia", "Slovenia",
      "Spain", "Sweden" }

\* The countries requests and table rows are drawn from: two EU members, one
\* non-EU country of the default-rate table at 10%, one at 30%.
Countries == { "Netherlands", "Germany", "India", "United States" }

\* get_withholding_rate's default_rates dictionary, with .get(country, 30).
default_rates(country) ==
    CASE country = "United States"  -> 30
      [] country = "United Kingdom" -> 20
      [] country = "India"          -> 10
      [] country = "China"          -> 10
      [] country = "Brazil"         -> 15
      [] country = "Australia"      -> 30
      [] country = "Canada"         -> 25
      [] country = "Japan"          -> 20
      [] country = "South Korea"    -> 20
      [] country = "Russia"         -> 20
      [] OTHER                      -> 30

TreatyStatuses == { "Active", "Superseded", "Terminated", "Pending" }

(***************************************************************************)
(* Tax Treaty rows                                                         *)
(***************************************************************************)
TreatyRow(c1, c2, st, eff, exp, rates, cert) ==
    [ country_1 |-> c1, country_2 |-> c2, status |-> st,
      effective_date |-> eff, expiry_date |-> exp,
      standard_rate |-> rates.standard_rate,
      reduced_rate |-> rates.reduced_rate,
      dividend_rate |-> rates.dividend_rate,
      interest_rate |-> rates.interest_rate,
      royalty_rate |-> rates.royalty_rate,
      service_fee_rate |-> rates.service_fee_rate,
      independent_services_rate |-> rates.independent_services_rate,
      certificate_required |-> cert ]

Rates(std, red, div, int, roy, fee, ind) ==
    [ standard_rate |-> std, reduced_rate |-> red, dividend_rate |-> div,
      interest_rate |-> int, royalty_rate |-> roy, service_fee_rate |-> fee,
      independent_services_rate |-> ind ]

\* TaxTreaty.validate_countries
validate_countries(t) == t.country_1 # t.country_2

\* Variant: validate_dates never throws.
validate_dates_unchecked(t) == TRUE

\* TaxTreaty.validate_dates (the throwing part)
validate_dates(t) ==
    ~ (t.effective_date # None /\ t.expiry_date # None
       /\ t.expiry_date < t.effective_date)

RateFields ==
    { "standard_rate", "reduced_rate", "dividend_rate", "interest_rate",
      "royalty_rate", "service_fee_rate", "independent_services_rate" }

\* TaxTreaty.validate_rates (the throwing part)
validate_rates(t) ==
    \A f \in RateFields : t[f] # None => ~ (t[f] < 0 \/ t[f] > 100)

\* TaxTreaty.validate
TreatyValidate(t) ==
    validate_countries(t) /\ validate_dates(t) /\ validate_rates(t)

(***************************************************************************)
(* Treaty resolver                                                         *)
(***************************************************************************)
\* Variant: the expiry condition left out of the WHERE clause.
TreatyMatchesIgnoringExpiry(t, source_country, target_country) ==
    /\ t.status = "Active"
    /\ \/ (t.country_1 = source_country /\ t.country_2 = target_country)
       \/ (t.country_1 = target_country /\ t.country_2 = source_country)

\* The WHERE clause of get_applicable_treaty's query.
TreatyMatches(t, source_country, target_country) ==
    /\ t.status = "Active"
    /\ \/ (t.country_1 = source_country /\ t.country_2 = target_country)
       \/ (t.country_1 = target_country /\ t.country_2 = source_country)
    /\ (t.expiry_date = None \/ t.expiry_date >= today)

\* ORDER BY effective_date DESC: NULL sorts after every date (MariaDB).
EffectiveKey(t) == IF t.effective_date = None THEN 0 ELSE t.effective_date

\* The columns the query selects; `name` identifies the row.
SelectedColumns(t) ==
    [ name |-> t,
      reduced_rate |-> t.reduced_rate,
      service_fee_rate |-> t.service_fee_rate,
      independent_services_rate |-> t.independent_services_rate,
      certificate_required |-> t.certificate_required ]

\* get_applicable_treaty: the rows LIMIT 1 may return (any one of the rows
\* with the latest effective_date); the empty set when it returns None.
get_applicable_treaty(source_country, target_country) ==
    LET matching == { t \in treaties :
                        TreatyMatches(t, source_country, target_country) }
        first == { t \in matching :
                     \A u \in matching : EffectiveKey(u) <= EffectiveKey(t) }
    IN  { SelectedColumns(t) : t \in first }

\* dict.get(key, default)
DictGet(d, key, default) == IF key \in DOMAIN d THEN d[key] ELSE default

\* get_withholding_rate's rate_fields, with .get(income_type, ["reduced_rate"]).
rate_fields(income_type) ==
    CASE income_type = "services" ->
            << "independent_services_rate", "service_fee_rate", "reduced_rate" >>
      [] income_type = "dividends" -> << "dividend_rate", "reduced_rate" >>
      [] income_type = "interest"  -> << "interest_rate", "reduced_rate" >>
      [] income_type = "royalties" -> << "royalty_rate", "reduced_rate" >>
      [] OTHER                     -> << "reduced_rate" >>

\* The loop `for field in ...: rate = treaty.get(field); if rate is not None:
\* break`, over the selected columns `row`.
RECURSIVE FirstRate(_, _)
FirstRate(row, fields) ==
    IF fields = << >> THEN None
    ELSE LET rate == DictGet(row, Head(fields), None)
         IN  IF rate # None \/ Len(fields) = 1 THEN rate
             ELSE FirstRate(row, Tail(fields))

\* The rate get_withholding_rate reports for a treaty row: `rate or 0`.
TreatyRate(row, income_type) ==
    LET rate == FirstRate(row, rate_fields(income_type))
    IN  IF rate = None THEN 0 ELSE rate

\* get_withholding_rate, given what get_applicable_treaty returned: << >> for
\* None, << row >> for a treaty.
get_withholding_rate(freelancer_country, company_country, income_type, treaty) ==
    IF freelancer_country \in get_eu_countries
       /\ company_country \in get_eu_countries
    THEN [ rate |-> 0, treaty_applied |-> FALSE, eu_member |-> TRUE,
           notes |-> << "No withholding tax within EU member states" >> ]
    ELSE IF treaty # << >>
    THEN     [ rate |-> TreatyRate(treaty[1], income_type),
               treaty_applied |-> TRUE,
               treaty_name |-> treaty[1].name,
               certificate_required |-> treaty[1].certificate_required,
               notes |-> << "Rate under treaty" >> ]
    ELSE [ rate |-> default_rates(freelancer_country),
           treaty_applied |-> FALSE,
           notes |-> << "No applicable treaty found. Default withholding rate applied." >> ]

(***************************************************************************)
(* VAT resolver                                                            *)
(***************************************************************************)
VatRow(std, red, dig, prof, rc) ==
    [ standard_rate |-> std, reduced_rate_1 |-> red,
      digital_services_rate |-> dig, professional_services_rate |-> prof,
      reverse_charge_b2b |-> rc ]

\* Python's `a or b` on rates: None and 0 are falsy.
Or(a, b) == IF a = None \/ a = 0 THEN b ELSE a

\* get_vat_rate's rate_map, with .get(service_type, config.standard_rate).
rate_map(config, service_type) ==
    CASE service_type = "standard" -> config.standard_rate
      [] service_type = "reduced" -> config.reduced_rate_1
      [] service_type = "digital" ->
           Or(config.digital_services_rate, config.standard_rate)
      [] service_type = "professional" ->
           Or(config.professional_services_rate, config.standard_rate)
      [] OTHER -> config.standard_rate

\* "B2B cross-border within EU uses reverse charge": the condition tested.
ConfigReverseCharge(config, is_b2b) == is_b2b /\ config.reverse_charge_b2b

\* get_vat_rate
get_vat_rate(country, service_type, is_b2b) ==
    IF country \notin DOMAIN vatConfigs
    THEN [ rate |-> 0, reverse_charge |-> FALSE,
           notes |-> "No VAT configuration found" ]
    ELSE LET config == vatConfigs[country] IN
         IF ConfigReverseCharge(config, is_b2b)
         THEN [ rate |-> 0, reverse_charge |-> TRUE,
                notes |-> "Reverse charge applies - VAT shifted to recipient" ]
         ELSE [ rate |-> rate_map(config, service_type),
                reverse_charge |-> FALSE,
                notes |-> "Standard rate for the service type" ]

(***************************************************************************)
(* Tax calculator                                                          *)
(***************************************************************************)
\* round(amount * rate / 100, 2) with amount in cents: the nearest cent of
\* n/100 cents, n = amount * rate; an exact tie goes to the even cent.
Round2(n) ==
    LET q == n \div 100
        r == n % 100
    IN  IF r < 50 THEN q
        ELSE IF r > 50 THEN q + 1
        ELSE IF q % 2 = 0 THEN q ELSE q + 1

\* TaxCalculator.__init__: the fields derived from the constructor arguments.
TaxCalculator(freelancer_country, company_country, is_b2b) ==
    [ freelancer_country |-> freelancer_country,
      company_country |-> company_country,
      is_b2b |-> is_b2b,
      is_freelancer_eu |-> freelancer_country \in get_eu_countries,
      is_company_eu |-> company_country \in get_eu_countries,
      is_cross_border |-> freelancer_country # company_country ]

\* TaxCalculator._calculate_withholding; `treaty` is what get_applicable_treaty
\* returns to get_withholding_rate.
WithholdingAmount(amount, rate) == Round2(amount * rate)

\* "EU to EU: No withholding"
NoWithholdingWithinEU(self) == self.is_freelancer_eu /\ self.is_company_eu

\* Variant: the same-country test lost.
DomesticPaymentNeverTaken(self) == FALSE

\* "Same country: No withholding (local taxation)"
DomesticPayment(self) == ~ self.is_cross_border

\* "If no certificate, may need to use higher rate": the condition of the branch.
CertificateMissing(rate, has_certificate, rate_info) ==
    rate > 0 /\ ~ has_certificate
    /\ DictGet(rate_info, "certificate_required", FALSE)

calculate_withholding(self, amount, has_certificate, treaty) ==
    IF NoWithholdingWithinEU(self)
    THEN [ rate |-> 0, amount |-> 0, treaty_applied |-> FALSE,
           certificate_required |-> FALSE,
           notes |-> << "No withholding tax between EU member states" >> ]
    ELSE IF DomesticPayment(self)
    THEN [ rate |-> 0, amount |-> 0, treaty_applied |-> FALSE,
           certificate_required |-> FALSE,
           notes |-> << "Domestic payment - no withholding" >> ]
    ELSE LET rate_info == get_withholding_rate(self.freelancer_country,
                              self.company_country, "services", treaty)
             rate0 == DictGet(rate_info, "rate", 0)
             reduced == CertificateMissing(rate0, has_certificate, rate_info)
             rate == IF reduced THEN DictGet(rate_info, "default_rate", rate0)
                     ELSE rate0
             notes == IF reduced
                      THEN Append(DictGet(rate_info, "notes", << >>),
                                  "(Certificate required for reduced rate)")
                      ELSE DictGet(rate_info, "notes", << >>)
         IN  [ rate |-> rate,
               amount |-> WithholdingAmount(amount, rate),
               treaty_applied |-> DictGet(rate_info, "treaty_applied", FALSE),
               treaty_name |-> DictGet(rate_info, "treaty_name", None),
               certificate_required |->
                   DictGet(rate_info, "certificate_required", FALSE),
               notes |-> notes ]

\* TaxCalculator._calculate_vat; rate None makes round(amount * rate / 100, 2)
\* raise TypeError, which the caller sees.
\* Variant: the B2B test inverted.
IntraEUReverseChargeForConsumers(self) ==
    self.is_cross_border /\ self.is_freelancer_eu /\ self.is_company_eu
    /\ ~ self.is_b2b

\* "Cross-border B2B within EU: Reverse charge"
IntraEUReverseCharge(self) ==
    self.is_cross_border /\ self.is_freelancer_eu /\ self.is_company_eu
    /\ self.is_b2b

\* Variant: the `not` on the freelancer's membership lost.
ImportOfServicesFromEU(self) ==
    self.is_freelancer_eu /\ self.is_company_eu /\ self.is_b2b

\* "Non-EU to EU: Generally no VAT on services (place of supply = customer)"
ImportOfServices(self) ==
    ~ self.is_freelancer_eu /\ self.is_company_eu /\ self.is_b2b

\* "EU to non-EU: Export of services, generally 0%"
ExportOfServices(self) == self.is_freelancer_eu /\ ~ self.is_company_eu

\* Variant: the amount taken from the rate alone.
VatAmountOfRateAlone(amount, rate) == Round2(rate * 100)

VatAmount(amount, rate) == Round2(amount * rate)

calculate_vat(self, amount, service_type) ==
    IF IntraEUReverseCharge(self)
    THEN [ rate |-> 0, amount |-> 0, reverse_charge |-> TRUE,
           notes |-> "EU B2B reverse charge mechanism - VAT accounted by recipient",
           raised |-> "" ]
    ELSE IF ImportOfServices(self)
    THEN [ rate |-> 0, amount |-> 0, reverse_charge |-> TRUE,
           notes |-> "Import of services - reverse charge applies",
           raised |-> "" ]
    ELSE IF ExportOfServices(self)
    THEN [ rate |-> 0, amount |-> 0, reverse_charge |-> FALSE,
           notes |-> "Export of services outside EU - 0% VAT",
           raised |-> "" ]
    ELSE LET vat_info == get_vat_rate(self.freelancer_country, service_type,
                                      self.is_b2b)
             rate == DictGet(vat_info, "rate", 0)
         IN  IF rate = None
             THEN [ rate |-> None, amount |-> 0, reverse_charge |-> FALSE,
                    notes |-> "", raised |-> "TypeError" ]
             ELSE [ rate |-> rate, amount |-> VatAmount(amount, rate),
                    reverse_charge |-> FALSE,
                    notes |-> "Standard VAT rate for the freelancer country",
                    raised |-> "" ]

LargePaymentThreshold == 1000000

\* TaxCalculator._get_compliance_notes
get_compliance_notes(self, gross_amount, withholding, vat) ==
    (IF vat.reverse_charge THEN << "REVERSE CHARGE" >> ELSE << >>)
    \o (IF withholding.rate > 0
        THEN << "WITHHOLDING TAX" >>
             \o (IF withholding.treaty_applied THEN << "TAX TREATY" >> ELSE << >>)
        ELSE << >>)
    \o (IF self.is_freelancer_eu /\ self.is_company_eu /\ self.is_cross_border
        THEN << "EU INTRA-COMMUNITY" >> ELSE << >>)
    \o (IF gross_amount > LargePaymentThreshold
        THEN << "LARGE PAYMENT" >> ELSE << >>)

\* Variant: VAT left out of the amount payable.
NetPayableWithoutVat(gross_amount, vat, withholding) ==
    gross_amount - withholding.amount

\* The net amounts of calculate_all_taxes.
NetPayable(gross_amount, vat, withholding) ==
    IF vat.reverse_charge
    THEN gross_amount - withholding.amount
    ELSE (gross_amount + vat.amount) - withholding.amount

\* TaxCalculator.calculate_all_taxes
calculate_all_taxes(self, gross_amount, service_type, has_tax_certificate, treaty) ==
    LET withholding == calculate_withholding(self, gross_amount,
                                             has_tax_certificate, treaty)
        vat == calculate_vat(self, gross_amount, service_type)
    IN  IF vat.raised # ""
        THEN [ raised |-> vat.raised ]
        ELSE [ raised |-> "",
               gross_amount |-> gross_amount,
               is_eu_freelancer |-> self.is_freelancer_eu,
               is_cross_border |-> self.is_cross_border,
               components |->
                   (IF withholding.rate > 0 THEN << "withholding_tax" >> ELSE << >>)
                   \o (IF vat.amount > 0 \/ vat.reverse_charge
                       THEN << "vat" >> ELSE << >>),
               withholding_tax |-> withholding,
               vat |-> vat,
               gross_with_vat |-> gross_amount + vat.amount,
               total_deductions |-> withholding.amount,
               net_payable |-> NetPayable(gross_amount, vat, withholding),
               compliance_notes |->
                   get_compliance_notes(self, gross_amount, withholding, vat) ]

(***************************************************************************)
(* FreelancerPayment.calculate_amounts                                     *)
(***************************************************************************)
RECURSIVE Sum(_)
Sum(amounts) == IF amounts = << >> THEN 0 ELSE Head(amounts) + Sum(Tail(amounts))

\* Cents in units of 1/10000.
E4(cents) == cents * 100

\* Variant: withholding taken on the VAT-inclusive amount.
PaymentWithholdingOnGrossWithVat4(doc, gross_amount, vat_amount4) ==
    IF doc.withholding_tax_applicable /\ doc.withholding_tax_rate > 0
    THEN ((E4(gross_amount) + vat_amount4) * doc.withholding_tax_rate) \div 100
    ELSE 0

\* "Withholding is typically on gross amount (before VAT)": gross * rate / 100,
\* not rounded, in units of 1/10000.
PaymentWithholding4(doc, gross_amount, vat_amount4) ==
    IF doc.withholding_tax_applicable /\ doc.withholding_tax_rate > 0
    THEN gross_amount * doc.withholding_tax_rate
    ELSE 0

\* FreelancerPayment.calculate_amounts: the fields it sets. Fields named *4
\* are in units of 1/10000, the others in cents.
calculate_amounts(doc) ==
    LET base0 == doc.rate * doc.quantity
        items_total == Sum(doc.payment_items)
        base1 == IF doc.payment_items # << >> /\ items_total > 0
                 THEN items_total ELSE base0
        milestone_total == Sum(doc.milestones)
        base_amount == IF doc.billing_type = "Milestone-Based"
                          /\ doc.milestones # << >> /\ milestone_total > 0
                       THEN milestone_total ELSE base1
        total_expenses == IF doc.expense_reimbursements # << >>
                          THEN Sum(doc.expense_reimbursements) ELSE 0
        gross_amount == base_amount + total_expenses
        vat_amount4 == IF doc.vat_applicable /\ ~ doc.reverse_charge
                       THEN gross_amount * doc.vat_rate ELSE 0
        gross_with_vat4 == E4(gross_amount) + vat_amount4
        withholding4 == PaymentWithholding4(doc, gross_amount, vat_amount4)
        net_amount4 == IF doc.reverse_charge
                       THEN E4(gross_amount) - withholding4
                       ELSE gross_with_vat4 - withholding4
        xr == IF doc.exchange_rate = 0 THEN 1 ELSE doc.exchange_rate
    IN  [ base_amount |-> base_amount,
          total_expenses |-> total_expenses,
          gross_amount |-> gross_amount,
          vat_amount4 |-> vat_amount4,
          gross_with_vat4 |-> gross_with_vat4,
          withholding_tax_amount4 |-> withholding4,
          total_deductions4 |-> withholding4,
          net_amount4 |-> net_amount4,
          base_amount_company_currency |-> base_amount * xr,
          net_amount_company_currency4 |-> net_amount4 * xr ]

(***************************************************************************)
(* Currency converter                                                      *)
(*                                                                         *)
(* Amounts are counted in 1/1000 of a currency unit, so that an amount can *)
(* have more decimals than the precision asked for.  Rates of the tables   *)
(* are counted in hundredths; the rate a lookup returns is the exact       *)
(* fraction num / den.                                                     *)
(***************************************************************************)
\* MOCK_EXCHANGE_RATES (EUR base), in hundredths.
MOCK_EXCHANGE_RATES ==
    [ EUR |-> 100, USD |-> 108, GBP |-> 86, CHF |-> 96, PLN |-> 432,
      SEK |-> 1145, DKK |-> 746, NOK |-> 1165, CZK |-> 2520, HUF |-> 39500,
      RON |-> 498, BGN |-> 196, HRK |-> 753, INR |-> 9050, JPY |-> 16200,
      CNY |-> 785, AUD |-> 165, CAD |-> 147, BRL |-> 535, MXN |-> 1890,
      KRW |-> 142500, SGD |-> 146, HKD |-> 845, ZAR |-> 2015, RUB |-> 9850 ]

Ratio(num, den) == [ num |-> num, den |-> den ]

\* The rows a frappe.db.get_value("Currency Exchange", {from_currency,
\* to_currency, date <= date_str}, "exchange_rate", order_by="date desc")
\* may take its value from: the rows of the pair with the latest date.
CurrencyExchangeValue(from_currency, to_currency, date_str) ==
    LET rows == { r \in currencyExchange :
                    /\ r.from_currency = from_currency
                    /\ r.to_currency = to_currency
                    /\ r.date <= date_str }
    IN  { r.exchange_rate :
            r \in { r \in rows : \A u \in rows : u.date <= r.date } }

\* Variant: the reference rates divided the other way round.
MockRateInverted(from_currency, to_currency) ==
    LET from_rate == DictGet(MOCK_EXCHANGE_RATES, from_currency, 100)
        to_rate == DictGet(MOCK_EXCHANGE_RATES, to_currency, 100)
    IN  IF from_rate > 0 THEN Ratio(to_rate, from_rate) ELSE Ratio(1, 1)

\* "Fall back to mock rates"
MockRate(from_currency, to_currency) ==
    LET from_rate == DictGet(MOCK_EXCHANGE_RATES, from_currency, 100)
        to_rate == DictGet(MOCK_EXCHANGE_RATES, to_currency, 100)
    IN  IF to_rate > 0 THEN Ratio(from_rate, to_rate) ELSE Ratio(1, 1)

\* get_exchange_rate: the rates it may return (more than one only when rows
\* of one pair share their latest date).
get_exchange_rate(from_currency, to_currency, transaction_date) ==
    IF from_currency = to_currency THEN { Ratio(1, 1) }
    ELSE LET date_str == IF transaction_date = None THEN today
                         ELSE transaction_date
             rate == CurrencyExchangeValue(from_currency, to_currency, date_str)
             reverse_rate ==
                 CurrencyExchangeValue(to_currency, from_currency, date_str)
             mock == { MockRate(from_currency, to_currency) }
             reversed ==
                 { Ratio(100, r) : r \in { r \in reverse_rate : r > 0 } }
                 \cup (IF reverse_rate = {} \/ \E r \in reverse_rate : ~ (r > 0)
                       THEN mock ELSE {})
         IN  { Ratio(r, 100) : r \in { r \in rate : r # 0 } }
             \cup (IF rate = {} \/ 0 \in rate THEN reversed ELSE {})

\* The nearest integer to n / d (d > 0), an exact half going to the even one.
RoundDiv(n, d) ==
    LET q == n \div d
        r == n % d
    IN  IF 2 * r < d THEN q
        ELSE IF 2 * r > d THEN q + 1
        ELSE IF q % 2 = 0 THEN q ELSE q + 1

RECURSIVE Pow10(_)
Pow10(n) == IF n = 0 THEN 1 ELSE 10 * Pow10(n - 1)

\* round(num / den, precision), in 1/1000.
Round(num, den, precision) ==
    RoundDiv(num, den * Pow10(3 - precision)) * Pow10(3 - precision)

\* convert_currency, given the rate get_exchange_rate returned.
convert_currency(amount, from_currency, to_currency, precision, rate) ==
    IF from_currency = to_currency
    THEN Round(amount, 1, precision)
    ELSE Round(amount * rate.num, rate.den, precision)

(***************************************************************************)
(* Inputs                                                                  *)
(***************************************************************************)
\* Rate columns of a treaty: the NL-US and NL-IN fixtures of
\* get_default_tax_treaties, a treaty with a dividend rate below its reduced
\* rate, and a treaty with a standard rate only.
RateProfiles ==
    { Rates(30, 15, 15, 0, 0, 0, 0),
      Rates(40, 10, 10, 10, 10, 10, None),
      Rates(30, 15, 10, None, None, None, None),
      Rates(30, None, None, None, None, None, None) }

\* Treaty rows the calculator runs against: Netherlands-India treaties in
\* force, one of them with no rate column set.
CalcTreatyRows ==
    { TreatyRow("Netherlands", "India", "Active", None, None, r, cert) :
        r \in RateProfiles, cert \in BOOLEAN }
    \cup { TreatyRow("Netherlands", "India", "Active", None, None,
                     Rates(None, None, None, None, None, None, None), FALSE) }

\* VAT Configuration rows: the Germany fixture (reverse_charge_b2b set, no
\* per-service rates) and a profile with a professional-services rate, no
\* reduced rate and reverse_charge_b2b unset.
VatRows ==
    { VatRow(19, 7, None, None, TRUE),
      VatRow(20, None, None, 9, FALSE) }

VatCountries == { "Germany", "India" }

\* Gross amounts in cents: -1000.00, 0.33, 1000.00, 10000.00 and 10000.01.
\* None of them times a rate of the tables is an exact half cent.
GrossAmounts == { 0 - 100000, 33, 100000, 1000000, 1000001 }

ServiceTypes == { "professional", "reduced", "services" }

IncomeTypes == { "services", "dividends", "interest", "royalties", "other" }

\* Where a payment's base amount comes from: rate x quantity, line items and
\* milestones, or rate x quantity of a milestone-based payment without
\* milestones; with and without expenses.
AmountSources ==
    { [ rate |-> 1001, quantity |-> 1, payment_items |-> << >>,
        billing_type |-> "Hourly", milestones |-> << >>,
        expense_reimbursements |-> << >> ],
      [ rate |-> 100, quantity |-> 3, payment_items |-> << 5000, 250 >>,
        billing_type |-> "Milestone-Based", milestones |-> << 20000 >>,
        expense_reimbursements |-> << 999 >> ],
      [ rate |-> 50000, quantity |-> 2, payment_items |-> << >>,
        billing_type |-> "Milestone-Based", milestones |-> << >>,
        expense_reimbursements |-> << 1 >> ] }

PaymentDoc(src, va, rc, vr, wa, wr, xr) ==
    [ rate |-> src.rate, quantity |-> src.quantity,
      payment_items |-> src.payment_items, billing_type |-> src.billing_type,
      milestones |-> src.milestones,
      expense_reimbursements |-> src.expense_reimbursements,
      vat_applicable |-> va, reverse_charge |-> rc, vat_rate |-> vr,
      withholding_tax_applicable |-> wa, withholding_tax_rate |-> wr,
      exchange_rate |-> xr ]

PaymentDocs ==
    { PaymentDoc(src, va, rc, vr, wa, wr, xr) :
        src \in AmountSources, va \in BOOLEAN, rc \in BOOLEAN, vr \in {0, 21},
        wa \in BOOLEAN, wr \in {0, 15}, xr \in {0, 2} }

\* Treaty rows the treaty resolver runs against: Netherlands-India treaties in
\* either column order, of every status, with and without dates.
ResolverTreatyRows ==
    { TreatyRow(c1, c2, st, eff, exp, Rates(40, 10, 10, 10, 10, 10, None), TRUE) :
        c1 \in { "Netherlands", "India" }, c2 \in { "Netherlands", "India" },
        st \in TreatyStatuses, eff \in { None, 1, 2 }, exp \in { None, 2 } }

\* Treaty rows the repeated calculation runs against: Netherlands-India
\* treaties with different effective dates, two of them with an expiry date.
ReplayTreatyRows ==
    { TreatyRow("Netherlands", "India", "Active", d[1], d[2],
                Rates(30, 15, 10, None, None, None, None), FALSE) :
        d \in { << 1, None >>, << 2, 2 >>, << 3, 3 >> } }

\* Currency codes: three of the reference table and one that is not in it.
Currencies == { "EUR", "USD", "INR", "XXX" }

\* Amounts in 1/1000: 100.000, 1.234 and 99.998. No conversion of them at the
\* rates of the tables is an exact half of the last digit kept.
ConvertAmounts == { 100000, 1234, 99998 }

Precisions == { 0, 2, 3 }

\* Currency Exchange rows: USD to EUR at 0.92 and at 0.95.
ExchangeRows ==
    { [ from_currency |-> "USD", to_currency |-> "EUR", date |-> d,
        exchange_rate |-> r ] : d \in { 1, 2 }, r \in { 92, 95 } }

\* Tax Treaty documents offered for saving, valid and invalid: equal
\* countries, an expiry before the effective date, a rate above 100, a
\* negative rate, and a reduced rate above the standard rate.
ValidationTreatyDocs ==
    { TreatyRow("Netherlands", c2, "Active", eff, exp, rates, FALSE) :
        c2 \in { "Netherlands", "India" },
        eff \in { None, 2 }, exp \in { None, 1, 2 },
        rates \in { Rates(100, 0, None, None, None, None, None),
                    Rates(10, 20, None, None, None, None, None),
                    Rates(101, 15, None, None, None, None, None),
                    Rates(30, 15, None, None, 0 - 5, None, None),
                    Rates(30, 15, None, None, None, None, 150) } }

\* VAT Configuration documents offered for saving: reduced rate in range,
\* above 100, negative; standard rate above 100.
ValidationVatRows ==
    { VatRow(19, 7, None, None, TRUE), VatRow(19, 150, None, None, TRUE),
      VatRow(19, 0 - 5, None, None, TRUE), VatRow(120, 7, None, None, TRUE) }

\* GDPR consent log requests: two data subjects, two of the seven actions.
ConsentFreelancers == { "FRL-0001", "FRL-0002" }

ConsentActions == { "Consent Given", "Consent Withdrawn" }

\* Freelancer Contract names, and "" for a payment without a contract.
ContractNames == { "CON-0001" }

\* The payments created, amounts in cents: against the contract 1000.00
\* gross with 900.00 net or 500.00 gross and net, and one without a contract.
PaymentRequests ==
    { [ contract |-> "CON-0001", gross_amount |-> 100000, net_amount |-> 90000 ],
      [ contract |-> "CON-0001", gross_amount |-> 50000, net_amount |-> 50000 ],
      [ contract |-> "", gross_amount |-> 50000, net_amount |-> 50000 ] }

\* How the database evaluates the assignments of one UPDATE: MariaDB from
\* left to right, each seeing the columns already assigned; standard SQL
\* all from the row as it was.
UpdateEvaluations == { "left_to_right", "simultaneous" }

(***************************************************************************)
(* Operations                                                              *)
(***************************************************************************)
\* Saving a new Tax Treaty document: validate, then the row is inserted.
InsertTreaty(t) ==
    /\ call = Idle
    /\ Cardinality(treaties) < MaxTreaties
    /\ t \notin treaties
    /\ TreatyValidate(t)
    /\ treaties' = treaties \cup {t}
    /\ UNCHANGED <<vatConfigs, today, currencyExchange, call, last, documents>>

\* VATConfiguration.validate_rates (the throwing part)
VatValidateRates(row) == ~ (row.standard_rate < 0 \/ row.standard_rate > 100)

\* Saving a VAT Configuration document (named by its country): validate sets
\* is_eu_member and checks the standard rate, then the row is written.
SaveVATConfiguration(country, row) ==
    /\ call = Idle
    /\ VatValidateRates(row)
    /\ LET saved == [ standard_rate |-> row.standard_rate,
                      reduced_rate_1 |-> row.reduced_rate_1,
                      digital_services_rate |-> row.digital_services_rate,
                      professional_services_rate |-> row.professional_services_rate,
                      reverse_charge_b2b |-> row.reverse_charge_b2b,
                      is_eu_member |-> country \in get_eu_countries ]
       IN  /\ ~ (country \in DOMAIN vatConfigs /\ vatConfigs[country] = saved)
           /\ vatConfigs' = [ c \in DOMAIN vatConfigs \cup {country} |->
                                IF c = country THEN saved ELSE vatConfigs[c] ]
    /\ UNCHANGED <<treaties, today, currencyExchange, call, last, documents>>

\* What get_applicable_treaty returns: << >> for None, else one row.
TreatyResults(source_country, target_country) ==
    IF get_applicable_treaty(source_country, target_country) = {}
    THEN { << >> }
    ELSE { << row >> : row \in get_applicable_treaty(source_country, target_country) }

\* TaxCalculator(freelancer_country, company_country, is_b2b)
\*     .calculate_all_taxes(gross_amount, service_type, has_tax_certificate)
CalculateAllTaxes(fc, cc, b2b, gross, st, cert) ==
    /\ call = Idle
    /\ \E treaty \in TreatyResults(fc, cc) :
         call' = [ op |-> "calculate_all_taxes",
                   freelancer_country |-> fc, company_country |-> cc,
                   is_b2b |-> b2b, gross_amount |-> gross,
                   service_type |-> st, has_tax_certificate |-> cert,
                   treaty |-> treaty,
                   result |-> calculate_all_taxes(TaxCalculator(fc, cc, b2b),
                                                  gross, st, cert, treaty) ]
    /\ UNCHANGED <<treaties, vatConfigs, today, currencyExchange, last, documents>>

\* get_withholding_rate(freelancer_country, company_country, income_type)
GetWithholdingRate(fc, cc, it) ==
    /\ call = Idle
    /\ \E treaty \in TreatyResults(fc, cc) :
         call' = [ op |-> "get_withholding_rate",
                   freelancer_country |-> fc, company_country |-> cc,
                   income_type |-> it, treaty |-> treaty,
                   result |-> get_withholding_rate(fc, cc, it, treaty) ]
    /\ UNCHANGED <<treaties, vatConfigs, today, currencyExchange, last, documents>>

\* get_applicable_treaty(source_country, target_country)
GetApplicableTreaty(source_country, target_country) ==
    /\ call = Idle
    /\ \E treaty \in TreatyResults(source_country, target_country) :
         call' = [ op |-> "get_applicable_treaty",
                   source_country |-> source_country,
                   target_country |-> target_country,
                   result |-> treaty ]
    /\ UNCHANGED <<treaties, vatConfigs, today, currencyExchange, last, documents>>

\* FreelancerPayment.calculate_amounts on a payment document
CalculateAmounts(doc) ==
    /\ call = Idle
    /\ call' = [ op |-> "calculate_amounts", doc |-> doc,
                 result |-> calculate_amounts(doc) ]
    /\ UNCHANGED <<treaties, vatConfigs, today, currencyExchange, last, documents>>

\* TaxCalculator(freelancer_country, company_country, is_b2b, transaction_date)
\*     .calculate_all_taxes(gross_amount, service_type, has_tax_certificate):
\* the constructor keeps transaction_date or nowdate(), and the breakdown
\* carries it.
CalculateAllTaxesAsOf(transaction_date, fc, cc, b2b, gross, st, cert) ==
    /\ call = Idle
    /\ \E treaty \in TreatyResults(fc, cc) :
         LET date == IF transaction_date = None THEN today
                     ELSE transaction_date
         IN  call' = [ op |-> "calculate_all_taxes",
                       freelancer_country |-> fc, company_country |-> cc,
                       is_b2b |-> b2b, transaction_date |-> date,
                       gross_amount |-> gross,
                       service_type |-> st, has_tax_certificate |-> cert,
                       treaty |-> treaty,
                       result |-> [ transaction_date |-> date ]
                                  @@ calculate_all_taxes(
                                         TaxCalculator(fc, cc, b2b),
                                         gross, st, cert, treaty) ]
    /\ UNCHANGED <<treaties, vatConfigs, today, currencyExchange, last, documents>>

\* The caller keeps the breakdown it got, to compare a later one with it.
Keep ==
    /\ call # Idle
    /\ call.op = "calculate_all_taxes"
    /\ last' = [ call |-> call, treaties |-> treaties,
                 vatConfigs |-> vatConfigs ]
    /\ call' = Idle
    /\ UNCHANGED <<treaties, vatConfigs, today, currencyExchange, documents>>

\* A Currency Exchange document is inserted.
InsertCurrencyExchange(row) ==
    /\ call = Idle
    /\ Cardinality(currencyExchange) < MaxExchangeRows
    /\ row \notin currencyExchange
    /\ currencyExchange' = currencyExchange \cup {row}
    /\ UNCHANGED <<treaties, vatConfigs, today, call, last, documents>>

\* convert_currency(amount, from_currency, to_currency, transaction_date,
\*                  precision)
ConvertCurrency(amount, from_currency, to_currency, transaction_date, precision) ==
    /\ call = Idle
    /\ \E rate \in get_exchange_rate(from_currency, to_currency,
                                      transaction_date) :
         call' = [ op |-> "convert_currency", amount |-> amount,
                   from_currency |-> from_currency,
                   to_currency |-> to_currency,
                   transaction_date |-> transaction_date,
                   precision |-> precision, rate |-> rate, raised |-> "",
                   result |-> convert_currency(amount, from_currency,
                                               to_currency, precision, rate) ]
    /\ UNCHANGED <<treaties, vatConfigs, today, currencyExchange, last, documents>>

\* A day passes.
Tick ==
    /\ call = Idle
    /\ today < MaxDate
    /\ today' = today + 1
    /\ UNCHANGED <<treaties, vatConfigs, currencyExchange, call, last, documents>>

\* The caller takes the result; the request is discarded.
Return ==
    /\ call # Idle
    /\ call' = Idle
    /\ UNCHANGED <<treaties, vatConfigs, today, currencyExchange, last, documents>>

\* What TaxTreaty.validate throws, "" when it returns.
TreatyThrown(t) ==
    IF ~ validate_countries(t)
    THEN "Country 1 and Country 2 must be different"
    ELSE IF ~ validate_dates(t)
    THEN "Expiry date cannot be before effective date"
    ELSE IF ~ validate_rates(t)
    THEN "must be between 0 and 100"
    ELSE ""

\* The frappe.msgprint warnings of validate_dates and validate_rates.
TreatyMsgprints(t) ==
    (IF t.expiry_date # None /\ t.expiry_date < today /\ t.status = "Active"
     THEN { "Treaty expiry date has passed. Consider updating status." }
     ELSE {})
    \cup
    (IF /\ t.reduced_rate # None /\ t.reduced_rate # 0
        /\ t.standard_rate # None /\ t.standard_rate # 0
        /\ t.reduced_rate > t.standard_rate
     THEN { "Reduced rate is higher than standard rate. Please verify." }
     ELSE {})

\* A user saves a new Tax Treaty document: validate runs, and the row is
\* inserted unless validate threw.
SaveTaxTreaty(t) ==
    /\ call = Idle
    /\ Cardinality(treaties) < MaxTreaties
    /\ t \notin treaties
    /\ call' = [ op |-> "save_tax_treaty", doc |-> t,
                 raised |-> TreatyThrown(t),
                 msgprint |-> IF TreatyValidate(t) THEN TreatyMsgprints(t)
                              ELSE {} ]
    /\ treaties' = IF TreatyValidate(t) THEN treaties \cup {t} ELSE treaties
    /\ UNCHANGED <<vatConfigs, today, currencyExchange, last, documents>>

\* Variant: validate_immutability never throws.
validate_immutability_unchecked(is_new) == ""

\* GDPRConsentLog.validate_immutability: what it throws, "" when it returns.
validate_immutability(is_new) ==
    IF ~ is_new
    THEN "GDPR Consent Logs cannot be modified after creation."
    ELSE ""

\* GDPRConsentLog.set_defaults: timestamp and user when unset.
set_defaults(doc) ==
    [ doc EXCEPT !.timestamp = IF @ = None THEN today ELSE @,
                 !.user = IF @ = "" THEN "Administrator" ELSE @ ]

\* GDPRConsentLog.on_trash: what it throws.
on_trash == "GDPR Consent Logs cannot be deleted."

\* log_consent_action(freelancer, action): a new document is built and
\* inserted; validate runs on the new document.
LogConsentAction(freelancer, action) ==
    /\ call = Idle
    /\ Cardinality(DOMAIN consentLog) < MaxConsentLogs
    /\ LET name == Cardinality(DOMAIN consentLog) + 1
           log == [ freelancer |-> freelancer, action |-> action,
                    timestamp |-> None, user |-> "" ]
           raised == validate_immutability(TRUE)
       IN  /\ call' = [ op |-> "log_consent_action", name |-> name,
                        raised |-> raised ]
           /\ IF raised = ""
              THEN /\ consentLog' = [ n \in DOMAIN consentLog \cup {name} |->
                                        IF n = name THEN set_defaults(log)
                                        ELSE consentLog[n] ]
                   /\ inserted' = [ n \in DOMAIN inserted \cup {name} |->
                                      IF n = name THEN set_defaults(log)
                                      ELSE inserted[n] ]
              ELSE UNCHANGED <<consentLog, inserted>>
    /\ UNCHANGED <<treaties, vatConfigs, today, currencyExchange, last,
                   contracts, payments, inflight>>

\* A user loads a consent log entry, changes its action and saves it:
\* validate runs on the existing document.
SaveConsentLog(name, action) ==
    /\ call = Idle
    /\ name \in DOMAIN consentLog
    /\ LET doc == [ consentLog[name] EXCEPT !.action = action ]
           raised == validate_immutability(FALSE)
       IN  /\ call' = [ op |-> "save_consent_log", name |-> name,
                        doc |-> doc, raised |-> raised ]
           /\ consentLog' = IF raised = ""
                            THEN [ consentLog EXCEPT ![name] = set_defaults(doc) ]
                            ELSE consentLog
    /\ UNCHANGED <<treaties, vatConfigs, today, currencyExchange, last,
                   inserted, contracts, payments, inflight>>

\* A user deletes a consent log entry: on_trash runs before the row goes.
DeleteConsentLog(name) ==
    /\ call = Idle
    /\ name \in DOMAIN consentLog
    /\ call' = [ op |-> "delete_consent_log", name |-> name,
                 raised |-> on_trash ]
    /\ consentLog' = IF on_trash = ""
                     THEN [ n \in DOMAIN consentLog \ {name} |-> consentLog[n] ]
                     ELSE consentLog
    /\ UNCHANGED <<treaties, vatConfigs, today, currencyExchange, last,
                   inserted, contracts, payments, inflight>>

(***************************************************************************)
(* Freelancer Contract and Freelancer Payment documents                    *)
(***************************************************************************)
\* The table with one row written.
Put(table, name, row) ==
    [ n \in DOMAIN table \cup {name} |-> IF n = name THEN row ELSE table[n] ]

\* A payment row with status and docstatus written; trail is the history of
\* what was written.
Written(doc, status, docstatus) ==
    [ doc EXCEPT !.status = status, !.docstatus = docstatus,
                 !.trail = Append(@, [ status |-> status,
                                       docstatus |-> docstatus ]) ]

\* A request on the payment is between its document write and its hook: it
\* holds the row until it commits.
Locked(p) == \E r \in inflight : r.payment = p

\* A Freelancer Contract is created.
InsertContract(name) ==
    /\ call = Idle
    /\ name \notin DOMAIN contracts
    /\ contracts' = Put(contracts, name,
                        [ status |-> "Draft", docstatus |-> 0,
                          total_invoiced |-> 0, total_paid |-> 0,
                          outstanding_amount |-> 0 ])
    /\ UNCHANGED <<treaties, vatConfigs, today, currencyExchange, call, last,
                   consentLog, inserted, payments, inflight>>

\* FreelancerContract.before_submit, on submit of a draft contract.
SubmitContract(name) ==
    /\ call = Idle
    /\ name \in DOMAIN contracts
    /\ contracts[name].docstatus = 0
    /\ contracts' = [ contracts EXCEPT ![name].status = "Active",
                                       ![name].docstatus = 1 ]
    /\ UNCHANGED <<treaties, vatConfigs, today, currencyExchange, call, last,
                   consentLog, inserted, payments, inflight>>

\* FreelancerContract.check_pending_payments: what it throws, "" when it
\* returns.
check_pending_payments(name) ==
    LET pending == Cardinality({ p \in DOMAIN payments :
                        /\ payments[p].contract = name
                        /\ payments[p].status \in
                               { "Draft", "Pending", "Approved" } })
    IN  IF pending > 0 THEN "Cannot cancel contract with pending payments."
        ELSE ""

\* FreelancerContract.before_cancel, on cancel of a submitted contract.
CancelContract(name) ==
    /\ call = Idle
    /\ name \in DOMAIN contracts
    /\ contracts[name].docstatus = 1
    /\ LET raised == check_pending_payments(name)
       IN  /\ call' = [ op |-> "cancel_contract", name |-> name,
                        raised |-> raised ]
           /\ contracts' = IF raised = ""
                           THEN [ contracts EXCEPT
                                    ![name].status = "Cancelled",
                                    ![name].docstatus = 2 ]
                           ELSE contracts
    /\ UNCHANGED <<treaties, vatConfigs, today, currencyExchange, last,
                   consentLog, inserted, payments, inflight>>

\* A Freelancer Payment is created in Draft, against a contract or none.
InsertPayment(contract, amounts) ==
    /\ call = Idle
    /\ Cardinality(DOMAIN payments) < MaxPayments
    /\ contract = "" \/ contract \in DOMAIN contracts
    /\ payments' = Put(payments, Cardinality(DOMAIN payments) + 1,
                       [ contract |-> contract, status |-> "Draft",
                         docstatus |-> 0,
                         gross_amount |-> amounts.gross_amount,
                         net_amount |-> amounts.net_amount,
                         trail |-> << [ status |-> "Draft",
                                        docstatus |-> 0 ] >> ])
    /\ UNCHANGED <<treaties, vatConfigs, today, currencyExchange, call, last,
                   consentLog, inserted, contracts, inflight>>

\* FreelancerPayment.before_submit: the status it leaves.
before_submit(status) == IF status = "Draft" THEN "Pending Approval" ELSE status

\* Variant: the submitted amount is added without looking at self.contract's
\* row name (every contract is updated).
update_contract_totals_everywhere(doc) ==
    [ c \in DOMAIN contracts |->
        [ contracts[c] EXCEPT !.total_invoiced = @ + doc.gross_amount ] ]

\* FreelancerPayment.update_contract_totals: the contract table after the
\* UPDATE.
update_contract_totals(doc) ==
    IF doc.contract # ""
    THEN [ c \in DOMAIN contracts |->
             IF c = doc.contract
             THEN [ contracts[c] EXCEPT !.total_invoiced = @ + doc.gross_amount ]
             ELSE contracts[c] ]
    ELSE contracts

\* FreelancerPayment.reverse_contract_totals: the contract table after the
\* UPDATE.
reverse_contract_totals(doc) ==
    IF doc.contract # ""
    THEN [ c \in DOMAIN contracts |->
             IF c = doc.contract
             THEN [ contracts[c] EXCEPT !.total_invoiced = @ - doc.gross_amount ]
             ELSE contracts[c] ]
    ELSE contracts

\* A user submits a draft payment: before_submit runs and the row is
\* written with docstatus 1; on_submit is still to run.
SubmitPayment(p) ==
    /\ call = Idle
    /\ p \in DOMAIN payments
    /\ ~ Locked(p)
    /\ payments[p].docstatus = 0
    /\ payments' = [ payments EXCEPT
                       ![p] = Written(@, before_submit(@.status), 1) ]
    /\ inflight' = inflight \cup { [ op |-> "on_submit", payment |-> p ] }
    /\ UNCHANGED <<treaties, vatConfigs, today, currencyExchange, call, last,
                   consentLog, inserted, contracts>>

\* FreelancerPayment.on_submit of a submission in flight.
OnSubmit(p) ==
    /\ call = Idle
    /\ [ op |-> "on_submit", payment |-> p ] \in inflight
    /\ contracts' = update_contract_totals(payments[p])
    /\ inflight' = inflight \ { [ op |-> "on_submit", payment |-> p ] }
    /\ UNCHANGED <<treaties, vatConfigs, today, currencyExchange, call, last,
                   consentLog, inserted, payments>>

\* A user cancels a submitted payment: the row is written with docstatus 2;
\* on_cancel is still to run.
CancelPayment(p) ==
    /\ call = Idle
    /\ p \in DOMAIN payments
    /\ ~ Locked(p)
    /\ payments[p].docstatus = 1
    /\ payments' = [ payments EXCEPT ![p] = Written(@, @.status, 2) ]
    /\ inflight' = inflight \cup { [ op |-> "on_cancel", payment |-> p ] }
    /\ UNCHANGED <<treaties, vatConfigs, today, currencyExchange, call, last,
                   consentLog, inserted, contracts>>

\* FreelancerPayment.on_cancel of a cancellation in flight.
OnCancel(p) ==
    /\ call = Idle
    /\ [ op |-> "on_cancel", payment |-> p ] \in inflight
    /\ payments' = [ payments EXCEPT ![p] = Written(@, "Cancelled", 2) ]
    /\ contracts' = reverse_contract_totals(payments[p])
    /\ inflight' = inflight \ { [ op |-> "on_cancel", payment |-> p ] }
    /\ UNCHANGED <<treaties, vatConfigs, today, currencyExchange, call, last,
                   consentLog, inserted>>

\* Variant: approve_payment without the status check.
approve_payment_any_status(doc, has_permission) ==
    IF doc.docstatus # 1
    THEN "Payment must be submitted before approval"
    ELSE IF ~ has_permission
    THEN "You don't have permission to approve payments"
    ELSE ""

\* approve_payment: what it throws, "" when it goes on to db_set.
approve_payment(doc, has_permission) ==
    IF doc.docstatus # 1
    THEN "Payment must be submitted before approval"
    ELSE IF doc.status \notin { "Pending Approval", "Invoice Received" }
    THEN "Payment is not pending approval"
    ELSE IF ~ has_permission
    THEN "You don't have permission to approve payments"
    ELSE ""

\* reject_payment: what it throws, "" when it goes on to db_set.
reject_payment(doc) ==
    IF doc.docstatus # 1
    THEN "Payment must be submitted before rejection"
    ELSE IF doc.status \notin { "Pending Approval", "Invoice Received" }
    THEN "Payment is not pending approval"
    ELSE ""

\* mark_as_paid: what it throws, "" when it goes on to db_set.
mark_as_paid(doc) ==
    IF doc.docstatus # 1
    THEN "Payment must be submitted first"
    ELSE IF doc.status \notin { "Approved", "Processing" }
    THEN "Payment must be approved before marking as paid"
    ELSE ""

\* mark_as_paid's UPDATE of the contract row: total_paid is assigned first,
\* then outstanding_amount from total_invoiced, total_paid and the amount.
MarkAsPaidUpdate(row, net_amount, evaluation) ==
    [ row EXCEPT
        !.total_paid = row.total_paid + net_amount,
        !.outstanding_amount =
            IF evaluation = "left_to_right"
            THEN row.total_invoiced - (row.total_paid + net_amount) - net_amount
            ELSE row.total_invoiced - row.total_paid - net_amount ]

\* approve_payment(payment)
ApprovePayment(p, has_permission) ==
    /\ call = Idle
    /\ p \in DOMAIN payments
    /\ ~ Locked(p)
    /\ LET raised == approve_payment(payments[p], has_permission)
       IN  /\ call' = [ op |-> "approve_payment", payment |-> p,
                        before |-> payments[p], raised |-> raised ]
           /\ payments' = IF raised = ""
                          THEN [ payments EXCEPT
                                   ![p] = Written(@, "Approved", @.docstatus) ]
                          ELSE payments
    /\ UNCHANGED <<treaties, vatConfigs, today, currencyExchange, last,
                   consentLog, inserted, contracts, inflight>>

\* reject_payment(payment)
RejectPayment(p) ==
    /\ call = Idle
    /\ p \in DOMAIN payments
    /\ ~ Locked(p)
    /\ LET raised == reject_payment(payments[p])
       IN  /\ call' = [ op |-> "reject_payment", payment |-> p,
                        before |-> payments[p], raised |-> raised ]
           /\ payments' = IF raised = ""
                          THEN [ payments EXCEPT
                                   ![p] = Written(@, "Rejected", @.docstatus) ]
                          ELSE payments
    /\ UNCHANGED <<treaties, vatConfigs, today, currencyExchange, last,
                   consentLog, inserted, contracts, inflight>>

\* mark_as_paid(payment)
MarkAsPaid(p, evaluation) ==
    /\ call = Idle
    /\ p \in DOMAIN payments
    /\ ~ Locked(p)
    /\ LET doc == payments[p]
           raised == mark_as_paid(doc)
       IN  /\ call' = [ op |-> "mark_as_paid", payment |-> p,
                        before |-> doc, raised |-> raised ]
           /\ payments' = IF raised = ""
                          THEN [ payments EXCEPT
                                   ![p] = Written(@, "Paid", @.docstatus) ]
                          ELSE payments
           /\ contracts' = IF raised = "" /\ doc.contract # ""
                           THEN [ c \in DOMAIN contracts |->
                                    IF c = doc.contract
                                    THEN MarkAsPaidUpdate(contracts[c],
                                             doc.net_amount, evaluation)
                                    ELSE contracts[c] ]
                           ELSE contracts
    /\ UNCHANGED <<treaties, vatConfigs, today, currencyExchange, last,
                   consentLog, inserted, inflight>>

Init ==
    /\ treaties = {}
    /\ vatConfigs = [ c \in {} |-> 0 ]
    /\ today = 1
    /\ currencyExchange = {}
    /\ call = Idle
    /\ last = Idle
    /\ consentLog = [ n \in {} |-> 0 ]
    /\ inserted = [ n \in {} |-> 0 ]
    /\ contracts = [ n \in {} |-> 0 ]
    /\ payments = [ n \in {} |-> 0 ]
    /\ inflight = {}

Next ==
    \/ \E t \in CalcTreatyRows : InsertTreaty(t)
    \/ \E c \in VatCountries, row \in VatRows : SaveVATConfiguration(c, row)
    \/ \E fc \in Countries, cc \in Countries, b2b \in BOOLEAN,
          gross \in GrossAmounts, st \in ServiceTypes, cert \in BOOLEAN :
         CalculateAllTaxes(fc, cc, b2b, gross, st, cert)
    \/ \E fc \in Countries, cc \in Countries, it \in IncomeTypes :
         GetWithholdingRate(fc, cc, it)
    \/ \E doc \in PaymentDocs : CalculateAmounts(doc)
    \/ Return

Spec == Init /\ [][Next]_vars

\* The treaty resolver against a table of dated treaties of every status.
ResolverNext ==
    \/ \E t \in ResolverTreatyRows : InsertTreaty(t)
    \/ Tick
    \/ \E a \in Countries, b \in Countries : GetApplicableTreaty(a, b)
    \/ Return

ResolverSpec == Init /\ [][ResolverNext]_vars

\* The currency converter against a table of stored exchange rates.
CurrencyNext ==
    \/ \E row \in ExchangeRows : InsertCurrencyExchange(row)
    \/ Tick
    \/ \E amount \in ConvertAmounts, f \in Currencies, t \in Currencies,
          d \in { None, 1, 2 }, precision \in Precisions :
         ConvertCurrency(amount, f, t, d, precision)
    \/ Return

CurrencySpec == Init /\ [][CurrencyNext]_vars

\* One calculation repeated: the same request made again on the same or on a
\* later day, the treaty table growing in between or not.
ReplayNext ==
    \/ \E t \in ReplayTreatyRows : InsertTreaty(t)
    \/ Tick
    \/ \E d \in { None, 1 }, cc \in { "Netherlands", "India" },
          b2b \in BOOLEAN, cert \in BOOLEAN :
         CalculateAllTaxesAsOf(d, "India", cc, b2b, 100000, "professional", cert)
    \/ Keep
    \/ Return

ReplaySpec == Init /\ [][ReplayNext]_vars

\* Documents of the rule tables offered for saving, valid or not.
ValidationNext ==
    \/ \E t \in ValidationTreatyDocs : SaveTaxTreaty(t)
    \/ \E row \in ValidationVatRows : SaveVATConfiguration("Germany", row)
    \/ Tick
    \/ Return

ValidationSpec == Init /\ [][ValidationNext]_vars

\* The GDPR consent log: entries created, then saved again or deleted.
ConsentNext ==
    \/ \E f \in ConsentFreelancers, a \in ConsentActions : LogConsentAction(f, a)
    \/ \E n \in DOMAIN consentLog, a \in ConsentActions : SaveConsentLog(n, a)
    \/ \E n \in DOMAIN consentLog : DeleteConsentLog(n)
    \/ Tick
    \/ Return

ConsentSpec == Init /\ [][ConsentNext]_vars

\* Contracts and their payments: created, submitted, approved or rejected,
\* paid and cancelled by users whose requests interleave.
PaymentNext ==
    \/ \E name \in ContractNames : InsertContract(name)
    \/ \E name \in ContractNames : SubmitContract(name)
    \/ \E name \in ContractNames : CancelContract(name)
    \/ \E request \in PaymentRequests :
         InsertPayment(request.contract, request)
    \/ \E p \in DOMAIN payments : SubmitPayment(p)
    \/ \E p \in DOMAIN payments : OnSubmit(p)
    \/ \E p \in DOMAIN payments : CancelPayment(p)
    \/ \E p \in DOMAIN payments : OnCancel(p)
    \/ \E p \in DOMAIN payments, has_permission \in BOOLEAN :
         ApprovePayment(p, has_permission)
    \/ \E p \in DOMAIN payments : RejectPayment(p)
    \/ \E p \in DOMAIN payments, evaluation \in UpdateEvaluations :
         MarkAsPaid(p, evaluation)
    \/ Return

PaymentSpec == Init /\ [][PaymentNext]_vars

(***************************************************************************)
(* Properties                                                              *)
(***************************************************************************)
IsEU(country) == country \in get_eu_countries

Calc == call.op = "calculate_all_taxes"

\* calculate_all_taxes returned a breakdown (it did not raise).
Returned == Calc /\ call.result.raised = ""

\* C1: for two distinct EU member countries and is_b2b = true,
\* calculate_all_taxes returns vat.reverse_charge = true, vat.rate = 0,
\* vat.amount = 0, withholding rate and amount 0, and net_payable equal to
\* the gross amount, whatever the gross amount.
C1_IntraEUB2BReverseCharge ==
    (Calc /\ IsEU(call.freelancer_country) /\ IsEU(call.company_country)
          /\ call.freelancer_country # call.company_country /\ call.is_b2b)
    => /\ call.result.raised = ""
       /\ call.result.vat.reverse_charge
       /\ call.result.vat.rate = 0
       /\ call.result.vat.amount = 0
       /\ call.result.withholding_tax.rate = 0
       /\ call.result.withholding_tax.amount = 0
       /\ call.result.net_payable = call.gross_amount

C1_Witness ==
    /\ Calc
    /\ call.freelancer_country = "Germany"
    /\ call.company_country = "Netherlands"
    /\ call.is_b2b
    /\ call.gross_amount = 100000
    /\ "Germany" \in DOMAIN vatConfigs
    /\ call.result.raised = ""
    /\ call.result.vat.reverse_charge
    /\ call.result.net_payable = 100000

\* C2: when the freelancer's country is the company's country (EU member or
\* not, any B2B flag, certificate flag and gross amount), the breakdown has
\* withholding rate 0, withholding amount 0 and is_cross_border = false; the
\* call returns a breakdown for every service type but "reduced".
C2_DomesticNoWithholding ==
    (Calc /\ call.freelancer_country = call.company_country)
    => /\ (call.service_type # "reduced" => call.result.raised = "")
       /\ (call.result.raised = ""
           => /\ call.result.withholding_tax.rate = 0
              /\ call.result.withholding_tax.amount = 0
              /\ call.result.is_cross_border = FALSE)

C2_Witness ==
    /\ Calc
    /\ call.freelancer_country = "India"
    /\ call.company_country = "India"
    /\ ~ call.is_b2b
    /\ call.has_tax_certificate
    /\ call.result.raised = ""
    /\ call.result.withholding_tax.rate = 0
    /\ call.result.withholding_tax.notes = << "Domestic payment - no withholding" >>

\* C3: for a cross-border request whose countries are not both EU members,
\* the withholding rate is the treaty rate when a treaty applies and the
\* certificate is held or not required, and the payee country's default rate
\* in every other case (no treaty, or certificate required but absent).
C3_TreatyRateOrDefault ==
    (Returned /\ call.freelancer_country # call.company_country
              /\ ~ (IsEU(call.freelancer_country) /\ IsEU(call.company_country)))
    => IF call.treaty # << >>
          /\ (call.has_tax_certificate \/ ~ call.treaty[1].certificate_required)
       THEN call.result.withholding_tax.rate = TreatyRate(call.treaty[1], "services")
       ELSE call.result.withholding_tax.rate = default_rates(call.freelancer_country)

\* C4: every breakdown has net_payable = gross - withholding amount under
\* reverse charge and gross + VAT amount - withholding amount otherwise, and
\* a VAT amount of 0 under reverse charge.
C4_NetPayable ==
    Returned
    => /\ call.result.net_payable =
            IF call.result.vat.reverse_charge
            THEN call.gross_amount - call.result.withholding_tax.amount
            ELSE call.gross_amount + call.result.vat.amount
                 - call.result.withholding_tax.amount
       /\ (call.result.vat.reverse_charge => call.result.vat.amount = 0)

C4_Witness ==
    /\ Returned
    /\ ~ call.result.vat.reverse_charge
    /\ call.result.vat.amount > 0
    /\ call.result.withholding_tax.amount > 0
    /\ call.result.net_payable # call.gross_amount - call.result.withholding_tax.amount

\* C5 as stated: the withholding amount is round(gross * rate / 100, 2) on
\* the gross amount, in TaxCalculator and, where withholding applies, in
\* FreelancerPayment.calculate_amounts alike.
C5_WithholdingRoundedEverywhere ==
    /\ Returned
       => call.result.withholding_tax.amount =
              Round2(call.gross_amount * call.result.withholding_tax.rate)
    /\ (call.op = "calculate_amounts" /\ call.doc.withholding_tax_applicable)
       => call.result.withholding_tax_amount4 =
              E4(Round2(call.result.gross_amount * call.doc.withholding_tax_rate))

\* C5 amended: TaxCalculator's withholding amount is
\* round(gross * rate / 100, 2); FreelancerPayment.calculate_amounts sets
\* gross * rate / 100 without rounding when withholding_tax_applicable is set
\* and the rate is above 0, and 0 otherwise. Both are functions of the gross
\* amount and the withholding rate (and flag) alone: the VAT rate, the VAT
\* amount, the reverse-charge flag and the service type do not enter.
C5_WithholdingOnGross ==
    /\ Returned
       => call.result.withholding_tax.amount =
              Round2(call.gross_amount * call.result.withholding_tax.rate)
    /\ call.op = "calculate_amounts"
       => call.result.withholding_tax_amount4 =
              IF call.doc.withholding_tax_applicable
                 /\ call.doc.withholding_tax_rate > 0
              THEN call.result.gross_amount * call.doc.withholding_tax_rate
              ELSE 0

C5_Witness ==
    /\ call.op = "calculate_amounts"
    /\ call.doc.withholding_tax_applicable
    /\ call.doc.withholding_tax_rate = 15
    /\ call.doc.vat_applicable /\ ~ call.doc.reverse_charge
    /\ call.doc.vat_rate = 21
    /\ call.result.vat_amount4 > 0
    /\ call.result.withholding_tax_amount4 = 1001 * 15
    /\ call.result.withholding_tax_amount4 % 100 # 0

\* C6: a same-country request, B2B or B2C, for a country with a VAT
\* Configuration gets reverse_charge = false, the country's rate for the
\* service type (the standard rate by default) and
\* vat.amount = round(gross * rate / 100, 2).
C6_DomesticLocalVat ==
    (Returned /\ call.freelancer_country = call.company_country
              /\ call.freelancer_country \in DOMAIN vatConfigs)
    => /\ ~ call.result.vat.reverse_charge
       /\ call.result.vat.rate =
              rate_map(vatConfigs[call.freelancer_country], call.service_type)
       /\ call.result.vat.amount = Round2(call.gross_amount * call.result.vat.rate)

\* C7: a request with is_b2b = false gets the payee country's local VAT rate
\* with reverse_charge = false, whatever the two countries; no export or
\* reverse-charge rule applies to it.
C7_ConsumerLocalVat ==
    (Returned /\ ~ call.is_b2b)
    => /\ ~ call.result.vat.reverse_charge
       /\ call.result.vat.rate =
              IF call.freelancer_country \in DOMAIN vatConfigs
              THEN rate_map(vatConfigs[call.freelancer_country], call.service_type)
              ELSE 0

ClaimedTreatyRate(t, income_type) ==
    LET specific ==
            CASE income_type = "services" ->
                    IF t.independent_services_rate # None
                    THEN t.independent_services_rate ELSE t.service_fee_rate
              [] income_type = "dividends" -> t.dividend_rate
              [] income_type = "interest" -> t.interest_rate
              [] income_type = "royalties" -> t.royalty_rate
              [] OTHER -> None
    IN  IF specific # None THEN specific
        ELSE IF t.reduced_rate # None THEN t.reduced_rate
        ELSE t.standard_rate

\* C9: with a matching treaty, the rate for an income type is the treaty's
\* rate for that income type when set, else its reduced_rate, else its
\* standard_rate.
C9_RateByIncomeType ==
    (call.op = "get_withholding_rate" /\ call.result.treaty_applied)
    => call.result.rate = ClaimedTreatyRate(call.treaty[1].name, call.income_type)

\* C10's eligible treaties for a country pair.
Eligible(a, b) ==
    { t \in treaties :
        /\ t.status = "Active"
        /\ {t.country_1, t.country_2} = {a, b}
        /\ (t.expiry_date = None \/ ~ (t.expiry_date < today)) }

NotLaterThan(u, t) ==
    \/ u.effective_date = None
    \/ (t.effective_date # None /\ u.effective_date <= t.effective_date)

\* C10: get_applicable_treaty(a, b) returns None exactly when no treaty is
\* Active, for the pair {a, b} in either order and unexpired today; otherwise
\* it returns such a treaty, one with the latest effective_date among them.
C10_ApplicableTreaty ==
    call.op = "get_applicable_treaty"
    => LET eligible == Eligible(call.source_country, call.target_country)
       IN  /\ (call.result = << >>) <=> (eligible = {})
           /\ call.result # << >>
              => /\ call.result[1].name \in eligible
                 /\ \A u \in eligible : NotLaterThan(u, call.result[1].name)

C10_Witness ==
    /\ call.op = "get_applicable_treaty"
    /\ today = 2
    /\ call.result # << >>
    /\ call.result[1].name.effective_date = 2
    /\ call.result[1].name.expiry_date = 2
    /\ call.result[1].name.country_1 = call.target_country
    /\ \E u \in treaties :
         /\ u.status = "Active"
         /\ u.effective_date = 1
         /\ u.expiry_date = None
         /\ u.country_1 = call.source_country

\* A treaty document none of whose rate columns is set.
AllRatesUnset(t) == \A f \in RateFields : t[f] = None

\* The request is cross-border and not between two EU members: the case in
\* which the calculator consults the treaty table.
TreatyConsulted ==
    /\ call.freelancer_country # call.company_country
    /\ ~ (IsEU(call.freelancer_country) /\ IsEU(call.company_country))

\* C11: when the matching treaty sets none of its rate fields, the rate
\* lookup and the calculation use the payee country's default withholding
\* rate with treaty_applied = false, never a 0% treaty rate.
C11_NoRateFallsToDefault ==
    /\ (call.op = "get_withholding_rate" /\ TreatyConsulted
        /\ call.treaty # << >> /\ AllRatesUnset(call.treaty[1].name))
       => /\ call.result.rate = default_rates(call.freelancer_country)
          /\ ~ call.result.treaty_applied
    /\ (Returned /\ TreatyConsulted /\ call.gross_amount >= 0
        /\ call.treaty # << >> /\ AllRatesUnset(call.treaty[1].name))
       => /\ call.result.withholding_tax.rate =
                 default_rates(call.freelancer_country)
          /\ ~ call.result.withholding_tax.treaty_applied

\* The request reaches the local-VAT branch of _calculate_vat and the rate
\* selection of get_vat_rate for a country with a VAT Configuration.
LocalVatByServiceType ==
    /\ Calc
    /\ call.gross_amount >= 0
    /\ ~ IntraEUReverseCharge(TaxCalculator(call.freelancer_country,
                                            call.company_country, call.is_b2b))
    /\ ~ ImportOfServices(TaxCalculator(call.freelancer_country,
                                        call.company_country, call.is_b2b))
    /\ ~ ExportOfServices(TaxCalculator(call.freelancer_country,
                                        call.company_country, call.is_b2b))
    /\ call.freelancer_country \in DOMAIN vatConfigs
    /\ ~ ConfigReverseCharge(vatConfigs[call.freelancer_country], call.is_b2b)

\* The rate C12 names: the per-service-type rate when the profile sets one,
\* the standard rate otherwise.
ClaimedVatRate(config, service_type) ==
    LET specific ==
            CASE service_type = "reduced" -> config.reduced_rate_1
              [] service_type = "digital" -> config.digital_services_rate
              [] service_type = "professional" -> config.professional_services_rate
              [] OTHER -> None
    IN  IF specific # None THEN specific ELSE config.standard_rate

\* C12: in the local-VAT branch the call always returns, with the profile's
\* rate for the service type when that rate is set and its standard_rate
\* when it is unset or the type is unknown ("reduced" included).
C12_StandardRateFallback ==
    LocalVatByServiceType
    => /\ call.result.raised = ""
       /\ call.result.vat.rate =
              ClaimedVatRate(vatConfigs[call.freelancer_country],
                             call.service_type)

\* The notes of a breakdown, as a set.
Notes == { call.result.compliance_notes[i] :
             i \in 1 .. Len(call.result.compliance_notes) }

\* C13: when the applicable treaty (one with a rate above 0) requires a
\* certificate and the request has none, compliance_notes has a note that the default rate was applied
\* and no note that a reduced treaty rate was applied.
C13_DefaultRateNote ==
    (Returned /\ TreatyConsulted /\ call.gross_amount >= 0
     /\ call.treaty # << >> /\ TreatyRate(call.treaty[1], "services") > 0
     /\ call.treaty[1].certificate_required /\ ~ call.has_tax_certificate)
    => /\ "DEFAULT RATE" \in Notes
       /\ "TAX TREATY" \notin Notes

\* C14: for a treaty that sets a rate, or none, compliance_notes has the reverse-charge note whenever
\* vat.reverse_charge, the withholding note whenever the withholding rate is
\* above 0, and the treaty note whenever treaty_applied, at rate 0 too.
C14_NotesForEveryCondition ==
    (Returned /\ call.gross_amount >= 0
     /\ (call.treaty # << >> => ~ AllRatesUnset(call.treaty[1].name)))
    => /\ (call.result.vat.reverse_charge => "REVERSE CHARGE" \in Notes)
       /\ (call.result.withholding_tax.rate > 0 => "WITHHOLDING TAX" \in Notes)
       /\ (call.result.withholding_tax.treaty_applied => "TAX TREATY" \in Notes)

\* C15: a gross amount of 10000.00 or more gets the large-payment note.
C15_LargePaymentFromThreshold ==
    (Returned /\ call.gross_amount >= LargePaymentThreshold)
    => "LARGE PAYMENT" \in Notes

\* C16: a negative gross amount is rejected with InvalidAmount; no breakdown
\* is returned for it.
C16_NegativeGrossRejected ==
    (Calc /\ call.gross_amount < 0)
    => call.result.raised = "InvalidAmount"

\* The breakdown of the request in flight at another gross amount, every
\* other input and the rule tables being the same.
AtGross(g) ==
    calculate_all_taxes(TaxCalculator(call.freelancer_country,
                                      call.company_country, call.is_b2b),
                        g, call.service_type, call.has_tax_certificate,
                        call.treaty)

\* C18 as stated: a larger gross amount gives a strictly larger VAT amount
\* when the VAT rate is above 0 and a strictly larger withholding amount
\* when the withholding rate is above 0, one cent apart included.
C18_StrictlyMonotone ==
    Returned
    => \A g \in GrossAmounts :
         g > call.gross_amount
         => /\ (call.result.vat.rate > 0
                => AtGross(g).vat.amount > call.result.vat.amount)
            /\ (call.result.withholding_tax.rate > 0
                => AtGross(g).withholding_tax.amount
                     > call.result.withholding_tax.amount)

\* C18 amended: a larger gross amount never gives a smaller VAT or
\* withholding amount, and gives a strictly larger one when the rate is
\* above 0 and the unrounded amounts are more than one cent apart
\* ((g2 - g1) * rate / 100 > 0.01).
C18_Monotone ==
    Returned
    => \A g \in GrossAmounts :
         g > call.gross_amount
         => /\ AtGross(g).vat.amount >= call.result.vat.amount
            /\ AtGross(g).withholding_tax.amount
                 >= call.result.withholding_tax.amount
            /\ ((g - call.gross_amount) * call.result.vat.rate > 100
                => AtGross(g).vat.amount > call.result.vat.amount)
            /\ ((g - call.gross_amount) * call.result.withholding_tax.rate > 100
                => AtGross(g).withholding_tax.amount
                     > call.result.withholding_tax.amount)

C18_Witness ==
    /\ Returned
    /\ call.gross_amount = 1000000
    /\ call.result.vat.rate = 19
    /\ call.result.withholding_tax.rate = 10
    /\ AtGross(1000001).vat.amount = call.result.vat.amount
    /\ AtGross(1000001).withholding_tax.amount
         = call.result.withholding_tax.amount
    /\ AtGross(100000).vat.amount < call.result.vat.amount
    /\ AtGross(100000).withholding_tax.amount
         < call.result.withholding_tax.amount

Conv == call.op = "convert_currency"

\* C19: a same-currency conversion returns the amount itself, whatever the
\* precision and the number of decimals of the amount.
C19_SameCurrencyIdentity ==
    (Conv /\ call.from_currency = call.to_currency)
    => call.result = call.amount

\* No Currency Exchange row of the pair, in either direction, is dated on or
\* before the date of the conversion.
NoStoredRate ==
    LET date_str == IF call.transaction_date = None THEN today
                    ELSE call.transaction_date
    IN  \A r \in currencyExchange :
          {r.from_currency, r.to_currency}
              = {call.from_currency, call.to_currency}
          => r.date > date_str

NoExactHalf ==
    Conv => LET d == call.rate.den * Pow10(3 - call.precision)
            IN  2 * ((call.amount * call.rate.num) % d) # d

\* The request in flight repeats the kept one: the same countries, B2B flag,
\* transaction date, gross amount, service type and certificate flag, against
\* the rule tables the kept one ran on.
Repeated ==
    /\ Calc
    /\ last # Idle
    /\ call.freelancer_country = last.call.freelancer_country
    /\ call.company_country = last.call.company_country
    /\ call.is_b2b = last.call.is_b2b
    /\ call.transaction_date = last.call.transaction_date
    /\ call.gross_amount = last.call.gross_amount
    /\ call.service_type = last.call.service_type
    /\ call.has_tax_certificate = last.call.has_tax_certificate
    /\ treaties = last.treaties
    /\ vatConfigs = last.vatConfigs

\* C17: a calculation repeated with identical inputs against unchanged rule
\* tables returns the identical breakdown.
C17_Determinism ==
    Repeated => call.result = last.call.result

\* C21: with the reference table only, the rate used from a to b is
\* rate(b) / rate(a): 100 EUR in USD (1.08) is strictly between 100 and 120.
C21_RateIsToOverFrom ==
    (Conv /\ call.from_currency # call.to_currency
          /\ call.from_currency \in DOMAIN MOCK_EXCHANGE_RATES
          /\ call.to_currency \in DOMAIN MOCK_EXCHANGE_RATES
          /\ NoStoredRate)
    => /\ call.rate.num * MOCK_EXCHANGE_RATES[call.from_currency]
            = call.rate.den * MOCK_EXCHANGE_RATES[call.to_currency]
       /\ (call.from_currency = "EUR" /\ call.to_currency = "USD"
           /\ call.amount = 100000)
          => (call.result > 100000 /\ call.result < 120000)

\* C22: a conversion between two different currencies one of which is not
\* in the rate table, no stored rate applying, fails with UnknownCurrency.
C22_UnknownCurrencyRejected ==
    (Conv /\ call.from_currency # call.to_currency
          /\ (call.from_currency \notin DOMAIN MOCK_EXCHANGE_RATES
              \/ call.to_currency \notin DOMAIN MOCK_EXCHANGE_RATES)
          /\ NoStoredRate)
    => call.raised = "UnknownCurrency"

\* C23: a calculator constructed with a transaction date d before today
\* finds and applies an Active treaty of the two countries whose expiry date
\* is on or after d and before today.
C23_LookupsAsOfTransactionDate ==
    (Calc /\ TreatyConsulted /\ call.transaction_date < today
     /\ \E t \in treaties :
          /\ t.status = "Active"
          /\ {t.country_1, t.country_2}
               = {call.freelancer_country, call.company_country}
          /\ t.expiry_date # None
          /\ t.expiry_date >= call.transaction_date
          /\ t.expiry_date < today)
    => /\ call.treaty # << >>
       /\ call.result.withholding_tax.treaty_applied

InRange(rate) == rate >= 0 /\ rate <= 100

\* C24: TaxTreaty.validate throws, and nothing is saved, exactly when
\* country_1 equals country_2, or expiry_date is before effective_date with
\* both set, or a rate field is below 0 or above 100; a reduced_rate above
\* standard_rate only warns.  Every saved treaty has two distinct countries,
\* effective_date <= expiry_date when both are set, and rates in [0,100].
C24_TreatyValidation ==
    /\ call.op = "save_tax_treaty" =>
         /\ (call.raised # "")
            <=> \/ call.doc.country_1 = call.doc.country_2
                \/ /\ call.doc.effective_date # None
                   /\ call.doc.expiry_date # None
                   /\ call.doc.expiry_date < call.doc.effective_date
                \/ \E f \in RateFields :
                     call.doc[f] # None /\ ~ InRange(call.doc[f])
         /\ (call.raised # "") <=> (call.doc \notin treaties)
    /\ \A t \in treaties :
         /\ t.country_1 # t.country_2
         /\ (t.effective_date # None /\ t.expiry_date # None)
            => t.effective_date <= t.expiry_date
         /\ \A f \in RateFields : t[f] # None => InRange(t[f])

\* A treaty with reduced_rate above standard_rate was saved with a warning.
C24_Witness ==
    /\ call.op = "save_tax_treaty"
    /\ call.raised = ""
    /\ call.doc.reduced_rate > call.doc.standard_rate
    /\ call.msgprint # {}
    /\ call.doc \in treaties

\* C25: every VAT Configuration that passed VATConfiguration.validate has
\* its standard rate and each reduced rate within [0,100].
C25_VatRatesInRange ==
    \A c \in DOMAIN vatConfigs :
        /\ InRange(vatConfigs[c].standard_rate)
        /\ vatConfigs[c].reduced_rate_1 # None
           => InRange(vatConfigs[c].reduced_rate_1)

\* C26: the GDPR consent log is append-only: a save of an existing entry is
\* rejected by validate, a delete is rejected by on_trash, and every entry
\* ever created still exists with the values it was created with.
C26_ConsentLogAppendOnly ==
    /\ call.op \in { "save_consent_log", "delete_consent_log" }
       => call.raised # ""
    /\ call.op = "log_consent_action" => call.raised = ""
    /\ \A n \in DOMAIN inserted :
         n \in DOMAIN consentLog /\ consentLog[n] = inserted[n]

\* A save that changes an entry's action was rejected; the entry is intact.
C26_Witness ==
    /\ call.op = "save_consent_log"
    /\ call.raised # ""
    /\ call.doc # inserted[call.name]
    /\ consentLog[call.name] = inserted[call.name]

\* C27: a Freelancer Contract cannot be cancelled while it has a pending
\* payment: before_cancel throws and the status does not become Cancelled
\* whenever a payment of the contract is Draft, Pending Approval, or Approved.
C27_PendingPaymentBlocksCancel ==
    (/\ call.op = "cancel_contract"
     /\ inflight = {}
     /\ \E p \in DOMAIN payments :
          /\ payments[p].contract = call.name
          /\ payments[p].status \in { "Draft", "Pending Approval", "Approved" })
    => /\ call.raised # ""
       /\ contracts[call.name].status # "Cancelled"

\* The history of a payment's status and docstatus, as written.
Trail(p) == payments[p].trail

\* C28: for a payment created in Draft and driven by submit, approve_payment,
\* reject_payment, mark_as_paid and cancel, status becomes Approved only from
\* Pending Approval or Invoice Received on a submitted document and Paid only
\* from Approved or Processing on a submitted document; so every Paid payment
\* was Approved earlier, a Rejected payment is never later Approved or Paid,
\* and a rejected transition leaves the status unchanged.
C28_LifecycleOrdering ==
    /\ \A p \in DOMAIN payments :
         /\ \A i \in 2..Len(Trail(p)) :
              /\ (Trail(p)[i].status = "Approved"
                  /\ Trail(p)[i - 1].status # "Approved")
                 => /\ Trail(p)[i - 1].status
                           \in { "Pending Approval", "Invoice Received" }
                    /\ Trail(p)[i - 1].docstatus = 1
              /\ (Trail(p)[i].status = "Paid"
                  /\ Trail(p)[i - 1].status # "Paid")
                 => /\ Trail(p)[i - 1].status \in { "Approved", "Processing" }
                    /\ Trail(p)[i - 1].docstatus = 1
         /\ \A i \in 1..Len(Trail(p)) :
              /\ Trail(p)[i].status = "Paid"
                 => \E j \in 1..(i - 1) : Trail(p)[j].status = "Approved"
              /\ Trail(p)[i].status = "Rejected"
                 => \A j \in (i + 1)..Len(Trail(p)) :
                        Trail(p)[j].status \notin { "Approved", "Paid" }
         /\ Trail(p)[Len(Trail(p))].status = payments[p].status
    /\ (/\ call.op \in { "approve_payment", "reject_payment", "mark_as_paid" }
        /\ call.raised # "")
       => payments[call.payment] = call.before

\* Approving a rejected payment was refused, and another payment, approved
\* before, is Paid.
C28_Witness ==
    /\ call.op = "approve_payment"
    /\ call.raised = "Payment is not pending approval"
    /\ call.before.status = "Rejected"
    /\ payments[call.payment].status = "Rejected"
    /\ \E q \in DOMAIN payments : payments[q].status = "Paid"

RECURSIVE SumOver(_, _)
SumOver(names, field) ==
    IF names = {} THEN 0
    ELSE LET p == CHOOSE q \in names : TRUE
         IN  payments[p][field] + SumOver(names \ {p}, field)

\* The payments of a contract that are submitted and not cancelled.
SubmittedPayments(c) ==
    { p \in DOMAIN payments :
        payments[p].contract = c /\ payments[p].docstatus = 1 }

\* C29: for each contract, after any interleaving of submissions and
\* cancellations of its payments, total_invoiced is the sum of gross_amount
\* over its payments that are submitted and not cancelled; approve, reject
\* and mark_as_paid leave it unchanged.
C29_TotalInvoiced ==
    inflight = {}
    => \A c \in DOMAIN contracts :
         contracts[c].total_invoiced
             = SumOver(SubmittedPayments(c), "gross_amount")

\* Two payments of one contract were submitted and one of them cancelled.
C29_Witness ==
    /\ inflight = {}
    /\ \E c \in DOMAIN contracts, p \in DOMAIN payments, q \in DOMAIN payments :
         /\ payments[p].contract = c /\ payments[q].contract = c
         /\ payments[p].docstatus = 1
         /\ payments[q].docstatus = 2
         /\ payments[p].gross_amount # payments[q].gross_amount
         /\ contracts[c].total_invoiced = payments[p].gross_amount

\* C30: for each contract, after any sequence of payment submit, approve,
\* mark_as_paid and cancel, outstanding_amount is total_invoiced minus
\* total_paid, and total_paid is the sum of net_amount of its payments
\* marked Paid.
C30_OutstandingAmount ==
    inflight = {}
    => \A c \in DOMAIN contracts :
         /\ contracts[c].outstanding_amount
                = contracts[c].total_invoiced - contracts[c].total_paid
         /\ contracts[c].total_paid
                = SumOver({ p \in DOMAIN payments :
                              /\ payments[p].contract = c
                              /\ payments[p].status = "Paid" }, "net_amount")

====
